---- MODULE Spec2Model ----
(***************************************************************************)
(* Model of fix-parser.py: a one-shot patcher that reads parser.ts, applies *)
(* three re.sub substitutions to the whole text and writes it back.        *)
(*                                                                         *)
(* A text is a sequence of one-character strings.  `file` is what is on    *)
(* disk (it may hold "\r"), `content` is the Python variable of the same   *)
(* name.  The regular expressions are modelled by what the re engine does  *)
(* with them: leftmost, non-overlapping matches, \s+ greedy.               *)
(***************************************************************************)
EXTENDS Integers, Sequences, FiniteSets, TLC

VARIABLES file, content, pc, f, compiled, out

vars == <<file, content, pc, f, compiled, out>>

----------------------------------------------------------------------------
(* Bounds of the input sets. *)

\* number of (gap, word) items of a generated document
MaxItems == 3

\* the same for the files of the complete run, which also fails and writes
MaxFileItems == 2

----------------------------------------------------------------------------
(* Literal texts of the source. *)

PARSE_TIME == <<"p","a","r","s","e","T","i","m","e",",">>

LANGUAGE == <<"l","a","n","g","u","a","g","e",":">>

RESOLVED_LANGUAGE ==
  <<"r","e","s","o","l","v","e","d","L","a","n","g","u","a","g","e",",">>

\* faulty variant of CLOSE_BRACE: the brace that ends a statement, not a property
CLOSE_BRACE_SEMICOLON == <<"}", ";">>

CLOSE_BRACE == <<"}", ",">>

NL == <<"\n">>

Spaces(n) == [i \in 1..n |-> " "]

\* replacement text of the first two re.sub calls: '\n'
REPL_PARSE_TIME == NL

\* faulty variant of REPL_LANGUAGE: the closing brace is not put back
REPL_LANGUAGE_NO_BRACE == NL \o Spaces(8)

\* replacement text of the third re.sub call: '\n        },'
REPL_LANGUAGE == NL \o Spaces(8) \o CLOSE_BRACE

\* the two distinct pattern strings handed to re.sub
PAT_PARSE_TIME == "\\s+parseTime,\\n"

PAT_LANGUAGE == "\\s+language:\\s+resolvedLanguage,\\n\\s+\\},"

Patterns == {PAT_PARSE_TIME, PAT_LANGUAGE}

----------------------------------------------------------------------------
(* The regular-expression engine, restricted to the two patterns. *)

Min(S) == CHOOSE x \in S : \A y \in S : x <= y

\* index of the first c in s at or after i (Len(s)+1 if none)
IndexOf(s, i, c) == Min({k \in i..Len(s) : s[k] = c} \cup {Len(s) + 1})

\* \s on a str pattern (the ASCII part of it)
IsSpace(c) == c \in {" ", "\t", "\n", "\r", "\f"}

\* does the literal lit stand in s at index i
HasAt(s, i, lit) ==
  /\ i >= 1
  /\ i + Len(lit) - 1 <= Len(s)
  /\ SubSeq(s, i, i + Len(lit) - 1) = lit

\* index of the first non-space character at or after i (Len(s)+1 if none)
RECURSIVE SkipSpace(_, _)
SkipSpace(s, i) ==
  IF i <= Len(s) /\ IsSpace(s[i]) THEN SkipSpace(s, i + 1) ELSE i

\* faulty variant of SpaceRun: \s* written for \s+, the empty run is accepted
SpaceRunStar(s, i) == IF i >= 1 THEN SkipSpace(s, i) ELSE 0

\* \s+ at i, greedy: the index after the run, or 0 when there is no run.
\* Every \s+ of the two patterns is followed by a literal that starts with a
\* non-space character, so backtracking into the run can never succeed.
SpaceRun(s, i) ==
  IF i >= 1 /\ i <= Len(s) /\ IsSpace(s[i]) THEN SkipSpace(s, i) ELSE 0

\* literal lit at i: the index after it, or 0.  A failed prefix (i = 0) fails.
Lit(s, i, lit) == IF i >= 1 /\ HasAt(s, i, lit) THEN i + Len(lit) ELSE 0

\* \s+parseTime,\n anchored at i: index after the match, or 0
MatchParseTime(s, i) ==
  Lit(s, Lit(s, SpaceRun(s, i), PARSE_TIME), NL)

\* faulty variant of MatchLanguage: \s* between language: and resolvedLanguage,
MatchLanguageStar(s, i) ==
  LET a == Lit(s, SpaceRun(s, i), LANGUAGE)
      b == Lit(s, IF a = 0 THEN 0 ELSE SkipSpace(s, a), RESOLVED_LANGUAGE)
      c == Lit(s, b, NL)
      d == IF c = 0 THEN 0 ELSE SpaceRun(s, c)
  IN  Lit(s, d, CLOSE_BRACE)

\* \s+language:\s+resolvedLanguage,\n\s+\}, anchored at i: index after, or 0
MatchLanguage(s, i) ==
  LET a == Lit(s, SpaceRun(s, i), LANGUAGE)
      b == Lit(s, IF a = 0 THEN 0 ELSE SpaceRun(s, a), RESOLVED_LANGUAGE)
      c == Lit(s, b, NL)
      d == IF c = 0 THEN 0 ELSE SpaceRun(s, c)
  IN  Lit(s, d, CLOSE_BRACE)

MatchAt(pat, s, i) ==
  IF pat = PAT_PARSE_TIME THEN MatchParseTime(s, i) ELSE MatchLanguage(s, i)

Repl(pat) ==
  IF pat = PAT_PARSE_TIME THEN REPL_PARSE_TIME ELSE REPL_LANGUAGE

\* re.search from i: the leftmost index at or after i where the pattern
\* matches, or 0.  Both patterns begin with \s, so only a whitespace character
\* can start a match.
Search(pat, s, i) ==
  LET starts == {k \in i..Len(s) : IsSpace(s[k]) /\ MatchAt(pat, s, k) # 0}
  IN  IF starts = {} THEN 0 ELSE Min(starts)

\* the matches re.sub finds, scanning from i: leftmost, non-overlapping;
\* each <<a, b>> is the span s[a .. b-1]
RECURSIVE FindAll(_, _, _)
FindAll(pat, s, i) ==
  LET k == Search(pat, s, i)
      e == MatchAt(pat, s, k)
  IN  IF k = 0 THEN <<>> ELSE <<(<<k, e>>)>> \o FindAll(pat, s, e)

\* s from index i on with every span of ms (all at or after i) replaced by r
RECURSIVE Splice(_, _, _, _)
Splice(s, i, ms, r) ==
  IF ms = <<>> THEN SubSeq(s, i, Len(s))
  ELSE SubSeq(s, i, ms[1][1] - 1) \o r \o Splice(s, ms[1][2], Tail(ms), r)

\* re.sub(pat, repl, s)
Sub(pat, s) == Splice(s, 1, FindAll(pat, s, 1), Repl(pat))

\* the first match only, as re.sub(pat, repl, s, count=1) finds it
FindFirst(pat, s, i) ==
  LET k == Search(pat, s, i)
  IN  IF k = 0 THEN <<>> ELSE <<(<<k, MatchAt(pat, s, k)>>)>>

\* faulty variant of Rule1: only the first match is replaced
Rule1Once(s) ==
  Splice(s, 1, FindFirst(PAT_PARSE_TIME, s, 1), Repl(PAT_PARSE_TIME))

\* faulty variant of Rule3: only the first match is replaced
Rule3Once(s) ==
  Splice(s, 1, FindFirst(PAT_LANGUAGE, s, 1), Repl(PAT_LANGUAGE))

----------------------------------------------------------------------------
(* The three rules, in the order of the source. *)

Rule1(s) == Sub(PAT_PARSE_TIME, s)

Rule2(s) == Sub(PAT_PARSE_TIME, s)

Rule3(s) == Sub(PAT_LANGUAGE, s)

RuleSet(s) == Rule3(Rule2(Rule1(s)))

----------------------------------------------------------------------------
(* Text-mode file I/O: open(..., 'r'/'w', encoding='utf-8'), newline=None. *)

\* os.linesep of the platform of file_path (a Windows drive path)
LINESEP == <<"\r", "\n">>

\* f.read() in text mode: universal newlines, "\r\n" and "\r" become "\n"
RECURSIVE Decode(_)
Decode(b) ==
  LET k == IndexOf(b, 1, "\r")
  IN  IF k > Len(b) THEN b
      ELSE SubSeq(b, 1, k - 1) \o NL
           \o Decode(SubSeq(b, IF k < Len(b) /\ b[k + 1] = "\n"
                                THEN k + 2 ELSE k + 1, Len(b)))

\* f.write(s) in text mode: every "\n" is written as os.linesep
RECURSIVE Encode(_)
Encode(s) ==
  LET k == IndexOf(s, 1, "\n")
  IN  IF k > Len(s) THEN s
      ELSE SubSeq(s, 1, k - 1) \o LINESEP \o Encode(SubSeq(s, k + 1, Len(s)))

----------------------------------------------------------------------------
(* Input documents. *)

RECURSIVE Flat(_)
Flat(ss) == IF ss = <<>> THEN <<>> ELSE Head(ss) \o Flat(Tail(ss))

\* some other token of the file
OTHER_TOKEN == <<"x">>

Gaps == {<<" ">>, <<"\n">>, <<"\n", " ">>}

Words == {OTHER_TOKEN, PARSE_TIME, LANGUAGE, RESOLVED_LANGUAGE, CLOSE_BRACE}

Items == {g \o w : g \in Gaps, w \in Words}

\* every text of at most n items, with or without a final newline
ItemDocs(n) ==
  { Flat(ss) \o t : ss \in UNION {[1..k -> Items] : k \in 0..n},
                    t \in {<<>>, NL} }

\* the return object of parse(): result, parseTime, language, closed by };
DOC_RETURN ==
  <<"r","e","t","u","r","n"," ","{">> \o NL
  \o Spaces(8) \o <<"r","e","s","u","l","t",",">> \o NL
  \o Spaces(8) \o PARSE_TIME \o NL
  \o Spaces(8) \o LANGUAGE \o <<" ">> \o RESOLVED_LANGUAGE \o NL
  \o Spaces(4) \o <<"}", ";">>

\* a language line and the closing brace of its object, both indented by k
Block(k) ==
  Spaces(k) \o LANGUAGE \o <<" ">> \o RESOLVED_LANGUAGE \o NL
  \o Spaces(k) \o CLOSE_BRACE

\* a parseTime line after a blank line
DOC_BLANK ==
  OTHER_TOKEN \o NL \o NL \o Spaces(4) \o PARSE_TIME \o NL \o OTHER_TOKEN \o NL

\* two objects, each ending with a language line
DOC_TWO_BLOCKS == Block(4) \o NL \o Block(4) \o NL

\* a language line written without a space after the colon
DOC_GLUED ==
  Spaces(2) \o LANGUAGE \o RESOLVED_LANGUAGE \o NL \o Spaces(2) \o CLOSE_BRACE

\* the shape the script is written for: parseTime, in the returned object and
\* in its metadata object, whose last line is the duplicate language line
DOC_PARSER ==
  OTHER_TOKEN \o NL
  \o Spaces(4) \o PARSE_TIME \o NL
  \o Spaces(4) \o OTHER_TOKEN \o NL
  \o Spaces(8) \o PARSE_TIME \o NL
  \o Spaces(8) \o OTHER_TOKEN \o NL
  \o Spaces(8) \o LANGUAGE \o <<" ">> \o RESOLVED_LANGUAGE \o NL
  \o Spaces(4) \o CLOSE_BRACE \o NL
  \o OTHER_TOKEN \o NL

Scenarios ==
  { DOC_RETURN, DOC_PARSER, Block(2), Block(8), DOC_BLANK, DOC_TWO_BLOCKS,
    DOC_GLUED }

\* the scenarios as a Windows checkout holds them
CrLfScenarios == {Encode(d) : d \in Scenarios}

Documents == ItemDocs(MaxItems) \cup Scenarios \cup CrLfScenarios

Files == ItemDocs(MaxFileItems) \cup Scenarios \cup CrLfScenarios

----------------------------------------------------------------------------
(* The run of the script, one action per statement. *)

\* faulty variant of Init: the patterns are compiled when the script starts
InitPrecompiled ==
  /\ file \in Files
  /\ content = <<>>
  /\ pc = "open_r"
  /\ f = "closed"
  /\ compiled = Patterns
  /\ out = 0

Init ==
  /\ file \in Files
  /\ content = <<>>
  /\ pc = "open_r"
  /\ f = "closed"
  /\ compiled = {}
  /\ out = 0

\* line 6: open(file_path, 'r', encoding='utf-8')
OpenRead ==
  /\ pc = "open_r"
  /\ f' = "r"
  /\ pc' = "read"
  /\ UNCHANGED <<file, content, compiled, out>>

\* line 6 raising (file missing or unreadable): the script ends
OpenReadFail ==
  /\ pc = "open_r"
  /\ pc' = "failed"
  /\ UNCHANGED <<file, content, f, compiled, out>>

\* line 7: content = f.read(), then the with block closes f
Read ==
  /\ pc = "read"
  /\ content' = Decode(file)
  /\ f' = "closed"
  /\ pc' = "rule1"
  /\ UNCHANGED <<file, compiled, out>>

\* line 7 raising (I/O or decoding error): f is closed, the script ends
ReadFail ==
  /\ pc = "read"
  /\ f' = "closed"
  /\ pc' = "failed"
  /\ UNCHANGED <<file, content, compiled, out>>

\* line 11: re.sub compiles the pattern on its first use and caches it
ApplyRule1 ==
  /\ pc = "rule1"
  /\ content' = Rule1(content)
  /\ compiled' = compiled \cup {PAT_PARSE_TIME}
  /\ pc' = "rule2"
  /\ UNCHANGED <<file, f, out>>

\* line 13
ApplyRule2 ==
  /\ pc = "rule2"
  /\ content' = Rule2(content)
  /\ compiled' = compiled \cup {PAT_PARSE_TIME}
  /\ pc' = "rule3"
  /\ UNCHANGED <<file, f, out>>

\* line 15
ApplyRule3 ==
  /\ pc = "rule3"
  /\ content' = Rule3(content)
  /\ compiled' = compiled \cup {PAT_LANGUAGE}
  /\ pc' = "open_w"
  /\ UNCHANGED <<file, f, out>>

\* line 17: open(file_path, 'w', encoding='utf-8') truncates the file
OpenWrite ==
  /\ pc = "open_w"
  /\ file' = <<>>
  /\ f' = "w"
  /\ pc' = "write"
  /\ UNCHANGED <<content, compiled, out>>

\* line 17 raising (file not writable): nothing is touched
OpenWriteFail ==
  /\ pc = "open_w"
  /\ pc' = "failed"
  /\ UNCHANGED <<file, content, f, compiled, out>>

\* line 18: f.write(content), then the with block flushes and closes f
Write ==
  /\ pc = "write"
  /\ file' = Encode(content)
  /\ f' = "closed"
  /\ pc' = "print"
  /\ UNCHANGED <<content, compiled, out>>

\* faulty variant of WriteFail: the error is swallowed and the script goes on
WriteFailSwallowed ==
  /\ pc = "write"
  /\ \E k \in 0..Len(Encode(content)) : file' = SubSeq(Encode(content), 1, k)
  /\ f' = "closed"
  /\ pc' = "print"
  /\ UNCHANGED <<content, compiled, out>>

\* line 18 or the close raising: some prefix of the text reached the disk
WriteFail ==
  /\ pc = "write"
  /\ \E k \in 0..Len(Encode(content)) : file' = SubSeq(Encode(content), 1, k)
  /\ f' = "closed"
  /\ pc' = "failed"
  /\ UNCHANGED <<content, compiled, out>>

\* line 20: print(...)
Confirm ==
  /\ pc = "print"
  /\ out' = out + 1
  /\ pc' = "done"
  /\ UNCHANGED <<file, content, f, compiled>>

Next ==
  \/ OpenRead
  \/ OpenReadFail
  \/ Read
  \/ ReadFail
  \/ ApplyRule1
  \/ ApplyRule2
  \/ ApplyRule3
  \/ OpenWrite
  \/ OpenWriteFail
  \/ Write
  \/ WriteFail
  \/ Confirm

Spec == Init /\ [][Next]_vars

----------------------------------------------------------------------------
(* The substitution engine alone: the state after line 7 for every input   *)
(* document, and the three substitutions.                                  *)

InitRules ==
  /\ file \in Documents
  /\ content = Decode(file)
  /\ pc = "rule1"
  /\ f = "closed"
  /\ compiled = {}
  /\ out = 0

NextRules == ApplyRule1 \/ ApplyRule2 \/ ApplyRule3

SpecRules == InitRules /\ [][NextRules]_vars

----------------------------------------------------------------------------
(* Vocabulary of the properties. *)

\* the Document of the run: the text read at line 7.  The file is not
\* written before line 17, so up to there it is Decode(file).
Document == Decode(file)

Contains(s, lit) == \E i \in 1..Len(s) : HasAt(s, i, lit)

\* somewhere in s: the text a, one or more whitespace characters, the text b
FollowedBy(s, a, b) ==
  \E i \in 1..Len(s) :
    /\ HasAt(s, i, a)
    /\ SkipSpace(s, i + Len(a)) > i + Len(a)
    /\ HasAt(s, SkipSpace(s, i + Len(a)), b)

\* no parseTime, is followed, after whitespace alone, by another one
NoParseTimeChain(s) == ~FollowedBy(s, PARSE_TIME, PARSE_TIME)

\* no parseTime, or resolvedLanguage, is followed, after whitespace alone,
\* by parseTime, or language:
NoChain(s) ==
  \A a \in {PARSE_TIME, RESOLVED_LANGUAGE} :
    \A b \in {PARSE_TIME, LANGUAGE} : ~FollowedBy(s, a, b)

\* index of the first "\n" at or after i (Len(s)+1 if none)
LineEnd(s, i) == IndexOf(s, i, "\n")

\* index of the last non-space character at or before i (0 if none)
RECURSIVE SkipSpaceBack(_, _)
SkipSpaceBack(s, i) ==
  IF i >= 1 /\ IsSpace(s[i]) THEN SkipSpaceBack(s, i - 1) ELSE i

\* s without its leading and trailing whitespace
Trim(s) == SubSeq(s, SkipSpace(s, 1), SkipSpaceBack(s, Len(s)))

\* the lines of s from index i on, each without its line break
RECURSIVE Lines(_, _)
Lines(s, i) ==
  IF i > Len(s) THEN <<>>
  ELSE <<SubSeq(s, i, LineEnd(s, i) - 1)>> \o Lines(s, LineEnd(s, i) + 1)

\* s from index i on without the lines whose trimmed text is parseTime,
\* (each removed with its line break), everything else as it is
RECURSIVE WithoutParseTimeLines(_, _)
WithoutParseTimeLines(s, i) ==
  IF i > Len(s) THEN <<>>
  ELSE LET e == LineEnd(s, i)
       IN  (IF Trim(SubSeq(s, i, e - 1)) = PARSE_TIME
            THEN <<>>
            ELSE SubSeq(s, i, IF e <= Len(s) THEN e ELSE Len(s)))
           \o WithoutParseTimeLines(s, e + 1)

ParseTimeLines(s) ==
  {i \in 1..Len(Lines(s, 1)) : Trim(Lines(s, 1)[i]) = PARSE_TIME}

\* index of the first whitespace character at or after i (Len(s)+1 if none)
RECURSIVE SkipWord(_, _)
SkipWord(s, i) ==
  IF i <= Len(s) /\ ~IsSpace(s[i]) THEN SkipWord(s, i + 1) ELSE i

\* the whitespace-delimited tokens of s from index i on
RECURSIVE Tokens(_, _)
Tokens(s, i) ==
  LET k == SkipSpace(s, i)
      e == SkipWord(s, k)
  IN  IF k > Len(s) THEN <<>> ELSE <<SubSeq(s, k, e - 1)>> \o Tokens(s, e)

TargetTokens == {PARSE_TIME, LANGUAGE, RESOLVED_LANGUAGE}

\* ts is rs with some occurrences of the target tokens taken out
RECURSIVE OnlyTargetsRemoved(_, _)
OnlyTargetsRemoved(rs, ts) ==
  IF rs = <<>> THEN ts = <<>>
  ELSE IF ts # <<>> /\ Head(rs) = Head(ts)
       THEN OnlyTargetsRemoved(Tail(rs), Tail(ts))
       ELSE Head(rs) \in TargetTokens /\ OnlyTargetsRemoved(Tail(rs), ts)

RECURSIVE SumLen(_)
SumLen(ms) ==
  IF ms = <<>> THEN 0 ELSE (ms[1][2] - ms[1][1]) + SumLen(Tail(ms))

\* number of runs of the Rule Set until it leaves the text unchanged
RECURSIVE RunsToFix(_)
RunsToFix(s) ==
  LET t == RuleSet(s) IN IF t = s THEN 0 ELSE 1 + RunsToFix(t)

----------------------------------------------------------------------------
(* The claims.  C1-C6, C9 and C10 are about the substitution engine and    *)
(* are checked under SpecRules; C7 and C8 are about the run, under Spec.   *)

\* what the spec expects of the end-to-end scenario: three lines
DOC_RETURN_BOTH_REMOVED ==
  <<"r","e","t","u","r","n"," ","{">> \o NL
  \o Spaces(8) \o <<"r","e","s","u","l","t",",">> \o NL
  \o Spaces(4) \o <<"}", ";">>

\* what re.sub leaves of it: four lines, the language line still there
DOC_RETURN_PARSE_TIME_REMOVED ==
  <<"r","e","t","u","r","n"," ","{">> \o NL
  \o Spaces(8) \o <<"r","e","s","u","l","t",",">> \o NL
  \o Spaces(8) \o LANGUAGE \o <<" ">> \o RESOLVED_LANGUAGE \o NL
  \o Spaces(4) \o <<"}", ";">>

\* C1 as stated: on the five-line return object the Rule Set yields the three
\* lines `return {`, `result,`, `};`, both targeted lines removed.
C1_EndToEndBothRemoved ==
  (pc = "open_w" /\ Document = DOC_RETURN)
    => content = DOC_RETURN_BOTH_REMOVED

\* C1 amended: on the five-line return object the Rule Set removes the
\* parseTime, line only; the language line stays, because the object is closed
\* by `};` and Rule 3 asks for `},`; the indentation of the four remaining
\* lines is unchanged.
C1_EndToEndParseTimeRemoved ==
  (pc = "open_w" /\ Document = DOC_RETURN)
    => content = DOC_RETURN_PARSE_TIME_REMOVED

C1_Witness ==
  /\ pc = "open_w"
  /\ Document = DOC_RETURN
  /\ content # Document

\* C2 as stated: the Rule Set is idempotent on every Document: a second run
\* over the output of the first changes nothing.
C2_Idempotent == pc = "open_w" => RuleSet(content) = content

\* C2 amended: the Rule Set is idempotent on every Document in which no
\* `parseTime,` or `resolvedLanguage,` is followed, after whitespace alone, by
\* `parseTime,` or `language:`.
C2_IdempotentWithoutChain ==
  pc = "open_w" => (RuleSet(content) = content \/ ~NoChain(Document))

C2_Witness ==
  /\ pc = "open_w"
  /\ NoChain(Document)
  /\ Contains(Document, PARSE_TIME)
  /\ Contains(Document, LANGUAGE)
  /\ ~Contains(content, PARSE_TIME)
  /\ ~Contains(content, LANGUAGE)

\* C3 as stated: on every Document Rule 2 changes nothing after Rule 1.
C3_Rule2NoOp == pc = "rule3" => content = Rule1(Document)

\* C3 amended: Rule 2 changes nothing after Rule 1 on every Document in which
\* no `parseTime,` is followed, after whitespace alone, by another `parseTime,`.
C3_Rule2NoOpWithoutChain ==
  pc = "rule3" => (content = Rule1(Document) \/ ~NoParseTimeChain(Document))

C3_Witness ==
  /\ pc = "rule3"
  /\ NoParseTimeChain(Document)
  /\ Len(FindAll(PAT_PARSE_TIME, Document, 1)) >= 2
  /\ content # Document

\* C4 as stated: a Document with no `parseTime,` and no
\* `language: resolvedLanguage,` (one space) comes out byte-identical.
C4_NoTargetsIdentity ==
  ( /\ pc = "open_w"
    /\ ~Contains(Document, PARSE_TIME)
    /\ ~Contains(Document, LANGUAGE \o <<" ">> \o RESOLVED_LANGUAGE) )
    => content = Document

\* C4 amended: a Document with no `parseTime,` and no `language:` followed by
\* one or more whitespace characters and `resolvedLanguage,` comes out
\* byte-identical.
C4_NoTargetsAnySpaceIdentity ==
  ( /\ pc = "open_w"
    /\ ~Contains(Document, PARSE_TIME)
    /\ ~FollowedBy(Document, LANGUAGE, RESOLVED_LANGUAGE) )
    => content = Document

C4_Witness ==
  /\ pc = "open_w"
  /\ ~Contains(Document, PARSE_TIME)
  /\ ~FollowedBy(Document, LANGUAGE, RESOLVED_LANGUAGE)
  /\ Contains(Document, LANGUAGE)
  /\ Contains(Document, RESOLVED_LANGUAGE \o NL)
  /\ Contains(Document, CLOSE_BRACE)
  /\ content = Document

\* C5 as stated: when one line of the Document has the trimmed text
\* `parseTime,`, Rule 1 yields the Document without that line, every other
\* line, blank ones included, as it was and in its place.
C5_ParseTimeLineRemoved ==
  (pc = "rule2" /\ Cardinality(ParseTimeLines(Document)) = 1)
    => content = WithoutParseTimeLines(Document, 1)

\* C6 as stated: Rule 3 turns a language line followed by a `},` line
\* indented by k spaces into a newline, the same k spaces and `},`.
C6_IndentationPreserved ==
  \A k \in 1..Len(Document) :
    (pc = "open_w" /\ Document = Block(k))
      => content = NL \o Spaces(k) \o CLOSE_BRACE

\* s becomes t when the matches ms are replaced: every match has at least
\* `least` characters and becomes `repl` characters, so t is shorter than s
\* as soon as there is a match
ShrinksTo(s, t, ms, least, repl) ==
  /\ \A i \in 1..Len(ms) : ms[i][2] - ms[i][1] >= least
  /\ Len(t) = Len(s) - SumLen(ms) + Len(ms) * repl
  /\ ms # <<>> => Len(t) < Len(s)
  /\ ms = <<>> => t = s

\* what the step of the rule with pattern pat does to the length of the text
Shrinks(pat, least, repl) ==
  /\ Len(Repl(pat)) = repl
  /\ ShrinksTo(content, content', FindAll(pat, content, 1), least, repl)

C9_Step ==
  /\ pc \in {"rule1", "rule2"} => Shrinks(PAT_PARSE_TIME, 12, 1)
  /\ pc = "rule3" => Shrinks(PAT_LANGUAGE, 32, 11)

\* C9: every match of Rule 1/2 has at least 12 characters and becomes 1, every
\* match of Rule 3 has at least 32 and becomes 11, so an application that finds
\* a match yields a strictly shorter text; and running the Rule Set again and
\* again reaches a text it leaves unchanged after no more runs than the
\* Document has characters.
C9_Converges ==
  /\ [][C9_Step]_vars
  /\ [](pc = "rule1" => RunsToFix(content) <= Len(content))

C9_Witness ==
  /\ pc = "rule1"
  /\ RunsToFix(content) = 2
  /\ Len(content) > Len(RuleSet(content))
  /\ Len(RuleSet(content)) > Len(RuleSet(RuleSet(content)))

\* C10: the non-whitespace tokens of the output are those of the Document, in
\* their order, with some occurrences of `parseTime,`, `language:` and
\* `resolvedLanguage,` taken out; no other token, `},` included, is lost,
\* doubled or added.
C10_OnlyTargetsRemoved ==
  pc = "open_w"
    => OnlyTargetsRemoved(Tokens(Document, 1), Tokens(content, 1))

C10_Witness ==
  /\ pc = "open_w"
  /\ Len(FindAll(PAT_LANGUAGE, Rule2(Rule1(Document)), 1)) >= 1
  /\ Len(Tokens(content, 1)) < Len(Tokens(Document, 1))
  /\ \E i \in 1..Len(Tokens(content, 1)) : Tokens(content, 1)[i] = CLOSE_BRACE

C8_Inv ==
  /\ out \in {0, 1}
  /\ out = 1 <=> pc = "done"
  /\ pc = "open_w" => content = RuleSet(Decode(file))
  /\ pc \in {"print", "done"} => (file = Encode(content) /\ f = "closed")

C8_Step ==
  /\ pc \notin {"failed", "done"}
  /\ pc \in {"open_w", "write", "print"} => content' = content
  /\ (OpenReadFail \/ ReadFail) => (pc' = "failed" /\ file' = file)
  /\ (OpenWriteFail \/ WriteFail) => pc' = "failed"
  /\ pc' = "failed" => out' = 0

\* C8: the confirmation is printed once, and only when the output of Rule 3
\* has been written to the file in full and the file closed; a run in which
\* the read or the write fails ends failed, takes no further step and prints
\* nothing, and a failing read leaves the file as it was.
C8_ConfirmationAfterWrite == []C8_Inv /\ [][C8_Step]_vars

C8_Witness ==
  /\ pc = "done"
  /\ out = 1
  /\ file = Encode(content)
  /\ Contains(file, LINESEP)
  /\ Len(content) > 0

====
